---- MODULE Spec2Model ----
(***************************************************************************)
(* Model of the task-orchestration core of the autonomous engineering      *)
(* agent: ProjectPlanner (core/planner.py) and EngineeringAgent            *)
(* (core/agent.py).  Scores are kept in tenths (0.7 is 7, 0.8 is 8); a     *)
(* task id task_<n> is the number n; a dict is a sequence of entries in    *)
(* insertion order.                                                        *)
(***************************************************************************)
EXTENDS Integers, Sequences, FiniteSets, TLC

VARIABLES
    tasks,              \* ProjectPlanner.tasks: Task records in dict insertion order
    title_to_id,        \* ProjectPlanner.title_to_id
    ready_tasks,        \* ids of the last list returned by get_next_tasks
    ready_valid,        \* TRUE while the graph is unchanged since that call
    pc,                 \* position inside execute_task
    task_input,         \* execute_task: the (possibly rewritten) objective text
    attempt,            \* execute_task: attempt
    previous_attempts,  \* execute_task: previous_attempts
    plan,               \* execute_task: ids of `tasks`, the list the planner returned
    idx,                \* execute_task: position of the for loop in plan
    results,            \* execute_task: results
    ret,                \* value returned by execute_task
    plan_calls,         \* create_project_plan invocations of the running call
    rewrites,           \* _incorporate_improvements invocations of the running call
    short_term_memory,  \* MemoryManager.short_term_memory (task ids of the entries)
    trace,              \* collaborator calls made by the last _execute_single_task
    calls               \* execute_task calls started so far

vars == <<tasks, title_to_id, ready_tasks, ready_valid, pc, task_input, attempt,
          previous_attempts, plan, idx, results, ret, plan_calls,
          rewrites, short_term_memory, trace, calls>>

plannerVars == <<tasks, title_to_id>>
apiVars == <<ready_tasks, ready_valid>>
agentVars == <<pc, task_input, attempt, previous_attempts, plan, idx, results,
               ret, plan_calls, rewrites, short_term_memory, trace, calls>>

----
(* Bounds *)

MaxPlanLen == 2     \* entries in one planner response
MaxGraph == 3       \* tasks in the graph when the planner is driven directly
MaxTasks == 2       \* tasks in the graph of an agent
MaxCalls == 1       \* execute_task calls on one agent
MaxFindings == 2    \* findings in an analysis the review reads
MaxRequirements == 2 \* requirements a solution is reviewed against

----
(* Program constants *)

max_attempts == 3
PassThreshold == 7

\* the pass threshold used for completion as well
CompleteThreshold_as_pass == PassThreshold

CompleteThreshold == 8

PENDING == "pending"
IN_PROGRESS == "in_progress"
COMPLETED == "completed"
FAILED == "failed"
BLOCKED == "blocked"

TaskStatus == {PENDING, IN_PROGRESS, COMPLETED, FAILED, BLOCKED}

TaskPriority == [LOW |-> 1, MEDIUM |-> 2, HIGH |-> 3, CRITICAL |-> 4]

----
(* dict helpers *)

HasKey(d, k) == \E i \in 1..Len(d) : d[i].id = k

DictGet(d, k) == d[CHOOSE i \in 1..Len(d) : d[i].id = k]

\* d[t.id] = t: an existing key keeps its position, a new key goes last
DictPut(d, t) ==
    IF HasKey(d, t.id)
    THEN [i \in 1..Len(d) |-> IF d[i].id = t.id THEN t ELSE d[i]]
    ELSE Append(d, t)

MapPut(m, k, v) == [x \in (DOMAIN m) \cup {k} |-> IF x = k THEN v ELSE m[x]]

Ids(d) == {d[i].id : i \in 1..Len(d)}

SeqIds(s) == [i \in 1..Len(s) |-> s[i].id]

\* r.get(key, default) on a record
Get(r, key, default) == IF key \in DOMAIN r THEN r[key] ELSE default

----
(* ProjectPlanner *)

Task(id, title, description, priority, metadata) ==
    [id |-> id, title |-> title, description |-> description, status |-> PENDING,
     priority |-> priority, dependencies |-> {}, metadata |-> metadata]

WellFormed(task_data) ==
    /\ {"title", "description", "priority"} \subseteq DOMAIN task_data
    /\ task_data.priority \in DOMAIN TaskPriority

\* first pass of create_project_plan: st = [tasks, title_to_id, out, raised]
RECURSIVE FirstPass(_, _, _)
FirstPass(st, tasks_data, k) ==
    IF k > Len(tasks_data) THEN st
    ELSE IF ~WellFormed(tasks_data[k]) THEN [st EXCEPT !.raised = TRUE]
    ELSE LET task_id == Len(st.tasks)
             task == Task(task_id, tasks_data[k].title, tasks_data[k].description,
                          tasks_data[k].priority, Get(tasks_data[k], "metadata", {}))
         IN FirstPass([tasks |-> DictPut(st.tasks, task),
                       title_to_id |-> MapPut(st.title_to_id, task.title, task.id),
                       out |-> Append(st.out, task.id),
                       raised |-> FALSE],
                      tasks_data, k + 1)

DependencyIds_keep_unknown(t2i, dep_titles) ==
    {IF d \in DOMAIN t2i THEN t2i[d] ELSE -1 : d \in dep_titles}

\* second pass: dependency titles become ids; an unknown title is dropped
DependencyIds(t2i, dep_titles) ==
    {t2i[d] : d \in dep_titles \cap DOMAIN t2i}

RECURSIVE SecondPass(_, _, _)
SecondPass(st, tasks_data, k) ==
    IF k > Len(tasks_data) THEN st
    ELSE LET task == DictGet(st.tasks, st.out[k])
             withDeps == IF "dependencies" \in DOMAIN tasks_data[k]
                         THEN [task EXCEPT !.dependencies =
                                  DependencyIds(st.title_to_id, tasks_data[k].dependencies)]
                         ELSE task
         IN SecondPass([st EXCEPT !.tasks = DictPut(st.tasks, withDeps)],
                       tasks_data, k + 1)

\* the except branch: one default task stored under the fixed id task_0
DefaultTaskPlan(ts, t2i, objective) ==
    LET default_task == Task(0, "Main Task", objective, "HIGH", {})
    IN [tasks |-> DictPut(ts, default_task),
        title_to_id |-> MapPut(t2i, default_task.title, default_task.id),
        out |-> <<default_task.id>>]

\* the text the JSON array is read from: a response without a "response"
\* key reads as "[]"
ResponseData(response) ==
    IF response.kind = "error" THEN [parsed |-> TRUE, data |-> <<>>]
    ELSE IF response.kind = "array" THEN [parsed |-> TRUE, data |-> response.data]
    ELSE [parsed |-> FALSE, data |-> <<>>]

create_project_plan(ts, t2i, objective, response) ==
    LET rd == ResponseData(response)
        first == FirstPass([tasks |-> ts, title_to_id |-> t2i, out |-> <<>>,
                            raised |-> FALSE], rd.data, 1)
    IN IF ~rd.parsed THEN DefaultTaskPlan(ts, t2i, objective)
       ELSE IF first.raised THEN DefaultTaskPlan(first.tasks, first.title_to_id, objective)
       ELSE LET second == SecondPass(first, rd.data, 1)
            IN [tasks |-> second.tasks, title_to_id |-> second.title_to_id,
                out |-> second.out]

\* `any` in place of `all`
DepsCompleted_any(ts, task) ==
    \E dep_id \in task.dependencies : DictGet(ts, dep_id).status = COMPLETED

DepsCompleted(ts, task) ==
    \A dep_id \in task.dependencies : DictGet(ts, dep_id).status = COMPLETED

\* the dependency test left out
IsReady_ignoring_dependencies(ts, task) == task.status = PENDING

IsReady(ts, task) == task.status = PENDING /\ DepsCompleted(ts, task)

\* a descending sort that is not stable: an element goes before its equals
InsertByPriority_before_equals(sorted, task) ==
    LET n == Cardinality({i \in 1..Len(sorted) :
                            TaskPriority[sorted[i].priority] > TaskPriority[task.priority]})
    IN SubSeq(sorted, 1, n) \o <<task>> \o SubSeq(sorted, n + 1, Len(sorted))

\* sorted(..., key=priority.value, reverse=True): a stable sort, so an
\* element goes behind every element whose key is at least its own
InsertByPriority(sorted, task) ==
    LET n == Cardinality({i \in 1..Len(sorted) :
                            TaskPriority[sorted[i].priority] >= TaskPriority[task.priority]})
    IN SubSeq(sorted, 1, n) \o <<task>> \o SubSeq(sorted, n + 1, Len(sorted))

RECURSIVE SortByPriority(_)
SortByPriority(s) ==
    IF s = <<>> THEN <<>>
    ELSE InsertByPriority(SortByPriority(SubSeq(s, 1, Len(s) - 1)), s[Len(s)])

\* a get_next_tasks that returns every Pending task
get_next_tasks_all_pending(ts) ==
    LET pending(task) == task.status = PENDING
    IN SortByPriority(SelectSeq(ts, pending))

get_next_tasks(ts) ==
    LET ready(task) == IsReady(ts, task)
    IN SortByPriority(SelectSeq(ts, ready))

update_task_status(ts, task_id, status) ==
    IF HasKey(ts, task_id)
    THEN [i \in 1..Len(ts) |-> IF ts[i].id = task_id
                                THEN [ts[i] EXCEPT !.status = status] ELSE ts[i]]
    ELSE ts

get_blocked_tasks(ts) ==
    LET blocked(task) ==
            /\ task.status = PENDING
            /\ \E dep_id \in task.dependencies : DictGet(ts, dep_id).status # COMPLETED
    IN SelectSeq(ts, blocked)

----
(* Collaborator outputs *)

Description == <<"description", 0>>

Objective == <<"objective", 0>>

\* the text the model returns for the n-th rewrite request
Revised(n) == <<"revised", n>>

\* an entry without the keys a task is built from
Malformed == [title |-> "A"]

TaskData(title, priority, dependencies) ==
    [title |-> title, description |-> Description, priority |-> priority,
     dependencies |-> dependencies]

\* entries of the responses the planner is given when it is driven directly
ApiTaskData ==
    { TaskData("A", "HIGH", {}),
      [title |-> "B", description |-> Description, priority |-> "LOW"],
      TaskData("C", "MEDIUM", {"A", "B"}),
      Malformed }

\* entries whose dependencies form cycles: A and B depend on each other, C on
\* itself; D depends on nothing
CyclicTaskData ==
    { TaskData("A", "HIGH", {"B"}),
      TaskData("B", "LOW", {"A"}),
      TaskData("C", "MEDIUM", {"C"}),
      TaskData("D", "MEDIUM", {}),
      Malformed }

\* entries of the responses the planner is given inside execute_task
AgentTaskData ==
    { [TaskData("A", "HIGH", {}) EXCEPT !.dependencies = {}],
      TaskData("B", "LOW", {"A"}),
      [title |-> "A", description |-> Description, priority |-> "MEDIUM",
       dependencies |-> {"A", "B"},
       metadata |-> {"requires_code", "requires_optimization"}],
      [title |-> "B", description |-> Description, priority |-> "CRITICAL",
       metadata |-> {"requires_code"}],
      Malformed }

PlannerResponses(entries) ==
    {[kind |-> k] : k \in {"error", "no_array", "bad_json"}}
    \cup {[kind |-> "array", data |-> d] :
            d \in UNION {[1..n -> entries] : n \in 0..MaxPlanLen}}

Scores == {5, 7, 8}

Suggestions == {<<>>, <<"improve">>}

Reviews == [overall_score : Scores, improvement_suggestions : Suggestions]

\* reviews inside _execute_single_task: their suggestions are never read
InnerReviews == [overall_score : Scores, improvement_suggestions : {<<>>}]

FailPoints == {"none", "analyze_system", "generate_simulation_code", "validate_code",
               "invalid", "execute_code", "execution_failed", "optimize_design",
               "review_solution"}

Behaviours == [fail : FailPoints, review : InnerReviews]

----
(* CritiqueEngine.review_solution *)

\* how a requirement compares with the solution: present and met, present and
\* not met, or not in the solution
RequirementChecks ==
    UNION {[1..n -> {"met", "unmet", "missing"}] : n \in 0..MaxRequirements}

Findings == [severity : {"low", "high"}, has_suggestion : BOOLEAN]

\* what _analyze_solution returns: {} when the collaborator gave no response
\* text, a dict with or without findings, or the response text itself
AnalysisOutputs ==
    {[kind |-> "no_response"], [kind |-> "dict"]}
    \cup {[kind |-> "dict", findings |-> f] :
            f \in UNION {[1..n -> Findings] : n \in 0..MaxFindings}}
    \cup [kind : {"text"}, is_json_object : BOOLEAN, has_score : BOOLEAN,
          score : {30, 90}, mentions_findings : BOOLEAN]

\* "findings" in analysis_results: a key of a dict, a substring of a text
HasFindings(analysis) ==
    IF analysis.kind = "text" THEN analysis.mentions_findings
    ELSE "findings" \in DOMAIN analysis

\* analysis_results["findings"] raises TypeError on a text
IndexingRaises(analysis) == analysis.kind = "text" /\ HasFindings(analysis)

\* json.loads(analysis_results) gave an object with an overall_score
ScoreExtracted(analysis) ==
    analysis.kind = "text" /\ analysis.is_json_object /\ analysis.has_score

\* _validate_requirements: a check per requirement found in the solution, an
\* issue per requirement not met or not found
ValidationChecks(requirements) ==
    Cardinality({i \in 1..Len(requirements) : requirements[i] # "missing"})
ValidationPassed(requirements) ==
    Cardinality({i \in 1..Len(requirements) : requirements[i] = "met"})
ValidationIssues(requirements) ==
    Cardinality({i \in 1..Len(requirements) : requirements[i] # "met"})

\* the findings whose severity is low or medium; the findings with a suggestion
PositiveFindings(findings) ==
    Cardinality({i \in 1..Len(findings) : findings[i].severity \in {"low", "medium"}})
SuggestedFindings(findings) ==
    Cardinality({i \in 1..Len(findings) : findings[i].has_suggestion})

\* scores in hundredths: 0.7 * validation_score + 0.3 * analysis_score
FallbackScore(requirements, analysis) ==
    LET validation_score ==
            IF ValidationChecks(requirements) > 0
            THEN (100 * ValidationPassed(requirements)) \div ValidationChecks(requirements)
            ELSE 50
        analysis_score ==
            IF HasFindings(analysis) /\ Len(analysis.findings) > 0
            THEN (100 * PositiveFindings(analysis.findings)) \div Len(analysis.findings)
            ELSE 50
    IN (70 * validation_score + 30 * analysis_score) \div 100

\* _generate_suggestions: one per validation issue, one per finding with a suggestion
SuggestionCount(requirements, analysis) ==
    ValidationIssues(requirements)
    + (IF HasFindings(analysis)
       THEN SuggestedFindings(analysis.findings) ELSE 0)

\* review_solution: _calculate_score, then _generate_suggestions; both read
\* analysis_results["findings"] outside any try block
review_solution(requirements, analysis) ==
    IF IndexingRaises(analysis)
    THEN [raised |-> TRUE]
    ELSE [raised |-> FALSE,
          review |-> [overall_score |->
                          IF ScoreExtracted(analysis) THEN analysis.score
                          ELSE FallbackScore(requirements, analysis),
                      improvement_suggestions |->
                          [i \in 1..SuggestionCount(requirements, analysis) |-> "suggestion"]]]

\* the analysis outputs on which the review of a task without requirements raises
RaisingAnalyses == {analysis \in AnalysisOutputs : review_solution(<<>>, analysis).raised}

----
(* EngineeringAgent._execute_single_task *)

NoExc == "none"

\* a collaborator call inside the try block: skipped once an exception is up
Call(st, name, b) ==
    IF st.exc # NoExc THEN st
    ELSE [trace |-> Append(st.trace, name),
          exc |-> IF b.fail = name THEN "collaborator error" ELSE NoExc]

\* a check whose result is ignored
RaiseIf_never(st, cond, message) == st

\* `if cond: raise ...` inside the try block
RaiseIf(st, cond, message) ==
    IF st.exc = NoExc /\ cond THEN [st EXCEPT !.exc = message] ELSE st

TryBlock(task, b) ==
    LET s0 == [trace |-> <<>>, exc |-> NoExc]
        s1 == Call(s0, "analyze_system", b)
        s2 == IF "requires_code" \in task.metadata
              THEN LET g == Call(s1, "generate_simulation_code", b)
                       v == RaiseIf(Call(g, "validate_code", b), b.fail = "invalid",
                                    "Generated code is invalid")
                   IN RaiseIf(Call(v, "execute_code", b), b.fail = "execution_failed",
                              "Code execution failed")
              ELSE s1
        s3 == IF "requires_optimization" \in task.metadata
              THEN Call(s2, "optimize_design", b)
              ELSE s2
    IN Call(s3, "review_solution", b)

AnalysisKeys(task) ==
    (IF "requires_code" \in task.metadata THEN {"code_result"} ELSE {})
    \cup (IF "requires_optimization" \in task.metadata THEN {"optimization_result"} ELSE {})

FailureOutcome(e) ==
    [error |-> e, analysis |-> {},
     review |-> [overall_score |-> 0, improvement_suggestions |-> <<"Task failed">>]]

\* a handler that catches ValueError only
Caught_value_error_only(e) == e = "Generated code is invalid"

\* which exceptions the handler of _execute_single_task catches
Caught(e) == TRUE

execute_single_task(ts, task, b) ==
    LET body == TryBlock(task, b)
    IN IF body.exc = NoExc
       THEN [tasks |-> update_task_status(ts, task.id,
                          IF b.review.overall_score >= CompleteThreshold
                          THEN COMPLETED ELSE FAILED),
             result |-> [analysis |-> AnalysisKeys(task), review |-> b.review],
             trace |-> body.trace, raised |-> FALSE]
       ELSE IF Caught(body.exc)
       THEN [tasks |-> update_task_status(ts, task.id, FAILED),
             result |-> FailureOutcome(body.exc),
             trace |-> body.trace, raised |-> FALSE]
       ELSE [tasks |-> ts, result |-> FailureOutcome(body.exc),
             trace |-> body.trace, raised |-> TRUE]

----
(* EngineeringAgent.execute_task *)

EmptyMap == [x \in {} |-> 0]

NoReturn == [returned |-> FALSE]

Init ==
    /\ tasks = <<>>
    /\ title_to_id = EmptyMap
    /\ ready_tasks = <<>>
    /\ ready_valid = FALSE
    /\ pc = "idle"
    /\ task_input = Objective
    /\ attempt = 0
    /\ previous_attempts = <<>>
    /\ plan = <<>>
    /\ idx = 0
    /\ results = <<>>
    /\ ret = NoReturn
    /\ plan_calls = 0
    /\ rewrites = 0
    /\ short_term_memory = <<>>
    /\ trace = <<>>
    /\ calls = 0

StartExecuteTask ==
    /\ pc = "idle"
    /\ calls < MaxCalls
    /\ calls' = calls + 1
    /\ pc' = "while"
    /\ task_input' = Objective
    /\ attempt' = 0
    /\ previous_attempts' = <<>>
    /\ plan' = <<>>
    /\ idx' = 0
    /\ results' = <<>>
    /\ ret' = NoReturn
    /\ plan_calls' = 0
    /\ rewrites' = 0
    /\ trace' = <<>>
    /\ UNCHANGED <<plannerVars, apiVars, short_term_memory>>

\* an except clause that lets the exception out of execute_task
ExceptionHandler_reraise(e) ==
    /\ pc' = "raised"
    /\ UNCHANGED ret

\* the except clause of the while body
ExceptionHandler(e) ==
    IF attempt = max_attempts
    THEN /\ ret' = [success |-> FALSE, error |-> e, attempts |-> attempt]
         /\ pc' = "done"
    ELSE /\ pc' = "while"
         /\ UNCHANGED ret

\* the loop test off by one
LoopCondition_inclusive == attempt <= max_attempts

\* while attempt < max_attempts:
LoopCondition == attempt < max_attempts

\* attempt += 1; tasks = self.planner.create_project_plan(task_input); results = []
CreatePlan(response) ==
    /\ pc = "while"
    /\ LoopCondition
    /\ LET p == create_project_plan(tasks, title_to_id, task_input, response)
       IN /\ Len(p.tasks) <= MaxTasks
          /\ tasks' = p.tasks
          /\ title_to_id' = p.title_to_id
          /\ plan' = p.out
    /\ attempt' = attempt + 1
    /\ plan_calls' = plan_calls + 1
    /\ idx' = 0
    /\ results' = <<>>
    /\ pc' = "for"
    /\ UNCHANGED <<apiVars, task_input, previous_attempts, ret, rewrites,
                   short_term_memory, trace, calls>>

ReturnExhausted_no_error ==
    /\ pc = "while"
    /\ ~LoopCondition
    /\ ret' = [success |-> FALSE, attempts |-> max_attempts,
               previous_attempts |-> previous_attempts]
    /\ pc' = "done"
    /\ UNCHANGED <<plannerVars, apiVars, task_input, attempt, previous_attempts, plan,
                   idx, results, plan_calls, rewrites, short_term_memory, trace, calls>>

\* the return after the while loop
ReturnExhausted ==
    /\ pc = "while"
    /\ ~LoopCondition
    /\ ret' = [success |-> FALSE, error |-> "Maximum attempts reached without success",
               attempts |-> max_attempts, previous_attempts |-> previous_attempts]
    /\ pc' = "done"
    /\ UNCHANGED <<plannerVars, apiVars, task_input, attempt, previous_attempts, plan,
                   idx, results, plan_calls, rewrites, short_term_memory, trace, calls>>

\* for task in tasks: result = self._execute_single_task(task); results.append(result)
ExecuteSingleTask(b) ==
    /\ pc = "for"
    /\ idx < Len(plan)
    /\ LET r == execute_single_task(tasks, DictGet(tasks, plan[idx + 1]), b)
       IN IF r.raised
          THEN /\ ExceptionHandler(r.result.error)
               /\ UNCHANGED <<tasks, results>>
          ELSE /\ tasks' = r.tasks
               /\ results' = Append(results, r.result)
               /\ pc' = "store"
               /\ UNCHANGED ret
    /\ trace' = TryBlock(DictGet(tasks, plan[idx + 1]), b).trace
    /\ idx' = idx + 1
    /\ UNCHANGED <<title_to_id, apiVars, task_input, attempt, previous_attempts, plan,
                   plan_calls, rewrites, short_term_memory, calls>>

EndFor ==
    /\ pc = "for"
    /\ idx >= Len(plan)
    /\ pc' = "check"
    /\ UNCHANGED <<plannerVars, apiVars, task_input, attempt, previous_attempts, plan,
                   idx, results, ret, plan_calls, rewrites, short_term_memory, trace,
                   calls>>

\* an add_to_short_term that writes to disk before it appends the entry
StoreResult_write_first(raises) ==
    /\ pc = "store"
    /\ IF raises
       THEN ExceptionHandler("add_to_short_term") /\ UNCHANGED short_term_memory
       ELSE /\ short_term_memory' = Append(short_term_memory, plan[idx])
            /\ pc' = "review"
            /\ UNCHANGED ret
    /\ UNCHANGED <<plannerVars, apiVars, task_input, attempt, previous_attempts, plan,
                   idx, results, plan_calls, rewrites, trace, calls>>

\* self.memory_manager.add_to_short_term({"type": "task_result", ...}): the
\* entry is appended before the list is written to disk, and the write may raise
StoreResult(raises) ==
    /\ pc = "store"
    /\ short_term_memory' = Append(short_term_memory, plan[idx])
    /\ IF raises
       THEN ExceptionHandler("add_to_short_term")
       ELSE pc' = "review" /\ UNCHANGED ret
    /\ UNCHANGED <<plannerVars, apiVars, task_input, attempt, previous_attempts, plan,
                   idx, results, plan_calls, rewrites, trace, calls>>

\* review = self.critique_engine.review_solution(...) raised
ReviewRaises ==
    /\ pc = "review"
    /\ RaisingAnalyses # {}
    /\ ExceptionHandler("review_solution")
    /\ trace' = <<>>
    /\ UNCHANGED <<plannerVars, apiVars, task_input, attempt, previous_attempts, plan,
                   idx, results, plan_calls, rewrites, short_term_memory, calls>>

\* the review of the result and the branch on its score; modified is the
\* answer of _incorporate_improvements, used when it is called
ReviewResult(rv, modified) ==
    /\ pc = "review"
    /\ trace' = <<>>
    /\ IF Get(rv, "overall_score", 0) >= PassThreshold
       THEN /\ tasks' = update_task_status(tasks, plan[idx], COMPLETED)
            /\ pc' = "for"
            /\ UNCHANGED <<previous_attempts, task_input, rewrites>>
       ELSE /\ tasks' = update_task_status(tasks, plan[idx], FAILED)
            /\ previous_attempts' = Append(previous_attempts,
                   [attempt |-> attempt,
                    improvement_suggestions |-> Get(rv, "improvement_suggestions", <<>>)])
            /\ IF attempt = max_attempts
               THEN /\ pc' = "check"
                    /\ UNCHANGED <<task_input, rewrites>>
               ELSE /\ pc' = "for"
                    /\ IF Get(rv, "improvement_suggestions", <<>>) # <<>>
                       THEN /\ rewrites' = rewrites + 1
                            /\ task_input' = IF modified THEN Revised(rewrites + 1)
                                             ELSE task_input
                       ELSE UNCHANGED <<task_input, rewrites>>
    /\ UNCHANGED <<title_to_id, apiVars, attempt, plan, idx, results, ret, plan_calls,
                   short_term_memory, calls>>

\* a check that reads the score inside each outcome's review
AllPassed_review_score(rs) ==
    \A i \in 1..Len(rs) : rs[i].review.overall_score >= PassThreshold

\* if all(r.get("overall_score", 0) >= 0.7 for r in results): return success
AllPassed(rs) ==
    \A i \in 1..Len(rs) : Get(rs[i], "overall_score", 0) >= PassThreshold

CheckResults ==
    /\ pc = "check"
    /\ IF AllPassed(results)
       THEN /\ ret' = [success |-> TRUE, results |-> results, attempts |-> attempt]
            /\ pc' = "done"
       ELSE /\ pc' = "while"
            /\ UNCHANGED ret
    /\ UNCHANGED <<plannerVars, apiVars, task_input, attempt, previous_attempts, plan,
                   idx, results, plan_calls, rewrites, short_term_memory, trace, calls>>

\* the caller has the result; the agent is free for the next call
Return ==
    /\ pc = "done"
    /\ pc' = "idle"
    /\ UNCHANGED <<plannerVars, apiVars, task_input, attempt, previous_attempts, plan,
                   idx, results, ret, plan_calls, rewrites, short_term_memory, trace,
                   calls>>

Next ==
    \/ StartExecuteTask
    \/ \E response \in PlannerResponses(AgentTaskData) : CreatePlan(response)
    \/ ReturnExhausted
    \/ \E b \in Behaviours : ExecuteSingleTask(b)
    \/ EndFor
    \/ \E raises \in BOOLEAN : StoreResult(raises)
    \/ ReviewRaises
    \/ \E rv \in Reviews, modified \in BOOLEAN : ReviewResult(rv, modified)
    \/ CheckResults
    \/ Return

Spec == Init /\ [][Next]_vars

----
(* The planner driven directly through its public methods *)

ApiCreateProjectPlan(response) ==
    /\ pc = "idle"
    /\ LET p == create_project_plan(tasks, title_to_id, Objective, response)
       IN /\ Len(p.tasks) <= MaxGraph
          /\ tasks' = p.tasks
          /\ title_to_id' = p.title_to_id
    /\ ready_tasks' = <<>>
    /\ ready_valid' = FALSE
    /\ UNCHANGED agentVars

ApiUpdateTaskStatus(task_id, status) ==
    /\ pc = "idle"
    /\ tasks' = update_task_status(tasks, task_id, status)
    /\ ready_tasks' = <<>>
    /\ ready_valid' = FALSE
    /\ UNCHANGED <<title_to_id, agentVars>>

ApiGetNextTasks ==
    /\ pc = "idle"
    /\ ready_tasks' = SeqIds(get_next_tasks(tasks))
    /\ ready_valid' = TRUE
    /\ UNCHANGED <<plannerVars, agentVars>>

PlannerNext ==
    \/ \E response \in PlannerResponses(ApiTaskData) : ApiCreateProjectPlan(response)
    \/ \E task_id \in 0..MaxGraph, status \in TaskStatus :
          ApiUpdateTaskStatus(task_id, status)
    \/ ApiGetNextTasks

PlannerSpec == Init /\ [][PlannerNext]_vars

----
(* The planner driven by a caller that executes only the tasks get_next_tasks
   returned *)

\* a task of the last ready list is executed and ends Completed or Failed
ExecuteReady(task_id, status) ==
    /\ ready_valid
    /\ task_id \in {ready_tasks[i] : i \in 1..Len(ready_tasks)}
    /\ ApiUpdateTaskStatus(task_id, status)

ScheduleNext ==
    \/ \E response \in PlannerResponses(CyclicTaskData) : ApiCreateProjectPlan(response)
    \/ ApiGetNextTasks
    \/ \E task_id \in 0..MaxGraph, status \in {COMPLETED, FAILED} :
          ExecuteReady(task_id, status)

ScheduleSpec == Init /\ [][ScheduleNext]_vars

\* execute_task is run to its end whenever it can take a step
FairSpec == Init /\ [][Next]_vars /\ WF_vars(Next)

----
(* Properties *)

Range(s) == {s[i] : i \in 1..Len(s)}

Position(d, k) == CHOOSE i \in 1..Len(d) : d[i].id = k

\* the task the for loop of execute_task is about to hand to _execute_single_task
HandingOver == pc = "for" /\ idx < Len(plan)

\* the outcome _execute_single_task has just returned, and its task
JustReturned == pc = "store"
LastOutcome == results[Len(results)]
CurrentTask == DictGet(tasks, plan[idx])

\* C1: a task is in the list get_next_tasks returned if and only if it is
\* Pending and every task in its dependency set is Completed
C1_ReadySetCorrect ==
    ready_valid =>
        \A i \in 1..Len(tasks) :
            (tasks[i].id \in Range(ready_tasks))
            <=> (/\ tasks[i].status = "pending"
                 /\ \A d \in tasks[i].dependencies :
                       \E j \in 1..Len(tasks) :
                           tasks[j].id = d /\ tasks[j].status = "completed")

C1_Witness ==
    /\ ready_valid
    /\ \E i \in 1..Len(tasks) :
          /\ tasks[i].id \in Range(ready_tasks)
          /\ Cardinality(tasks[i].dependencies) = 2
          /\ \A d \in tasks[i].dependencies : d \notin Range(ready_tasks)

\* C2: every task execute_task hands to _execute_single_task is, at that
\* moment, Pending with every one of its dependencies Completed
C2_HandedTaskIsReady ==
    HandingOver =>
        LET task == DictGet(tasks, plan[idx + 1])
        IN /\ task.status = "pending"
           /\ \A d \in task.dependencies : DictGet(tasks, d).status = "completed"

\* C3: when an attempt is judged, it succeeds if and only if every outcome
\* collected in it has a review score of at least 0.7
C3_SuccessIffAllScoresPass ==
    [][pc = "check" =>
         ((pc' = "done" /\ ret'.success)
          <=> \A i \in 1..Len(results) : results[i].review.overall_score >= 7)]_vars

\* C4: one call of execute_task invokes create_project_plan at most 3 times,
\* and a failure is returned only after the third attempt
C4_AttemptBound ==
    /\ plan_calls <= 3
    /\ (pc = "done" /\ ~ret.success) =>
          /\ attempt = 3
          /\ plan_calls = 3
          /\ ret.attempts = 3

C4_Witness ==
    /\ pc = "done"
    /\ ~ret.success
    /\ "previous_attempts" \in DOMAIN ret
    /\ plan_calls = 3

\* C5: _execute_single_task always returns an outcome; an outcome reporting
\* a failure has score 0.0, at least one suggestion, and its task is Failed
C5_OutcomeTotality ==
    [][HandingOver =>
         /\ pc' = "store"
         /\ Len(results') = Len(results) + 1
         /\ LET outcome == results'[Len(results')]
                task == DictGet(tasks', plan[idx + 1])
            IN "error" \in DOMAIN outcome =>
                  /\ outcome.review.overall_score = 0
                  /\ Len(outcome.review.improvement_suggestions) >= 1
                  /\ task.status = "failed"]_vars

C5_Witness ==
    /\ JustReturned
    /\ "error" \in DOMAIN LastOutcome
    /\ trace = <<"analyze_system">>
    /\ CurrentTask.status = "failed"

\* C6: every call of execute_task comes to its return, with a result that is
\* a success or a failure, after at most 3 iterations and with attempts in 1..3
C6_Terminates ==
    /\ [](pc = "done" =>
            /\ ret.success \in BOOLEAN
            /\ ret.attempts \in 1..3
            /\ attempt \in 1..3)
    /\ (pc = "while") ~> (pc = "done")

C6_Witness ==
    /\ pc = "done"
    /\ ret.success
    /\ ret.attempts = 2

\* C7: a task's status only moves Pending -> InProgress -> {Completed, Failed},
\* never leaves Completed or Failed, and never becomes Blocked
AllowedTransition(old, new) ==
    \/ new = old
    \/ old = "pending" /\ new = "in_progress"
    \/ old = "in_progress" /\ new \in {"completed", "failed"}

C7_StatusTransitions ==
    [][pc # "while" =>
         \A i \in 1..Len(tasks) :
             AllowedTransition(tasks[i].status, tasks'[i].status)]_vars

\* C8: after a completed review inside _execute_single_task the task is
\* Completed if the score is at least 0.8 and Failed otherwise
C8_StatusFollowsReview ==
    (JustReturned /\ "error" \notin DOMAIN LastOutcome) =>
        CurrentTask.status = IF LastOutcome.review.overall_score >= 8
                             THEN "completed" ELSE "failed"

C8_Witness ==
    /\ JustReturned
    /\ "error" \notin DOMAIN LastOutcome
    /\ LastOutcome.review.overall_score = 7
    /\ CurrentTask.status = "failed"

PriorityOf(ts, task_id) ==
    LET name == DictGet(ts, task_id).priority
    IN CASE name = "LOW" -> 1 [] name = "MEDIUM" -> 2 [] name = "HIGH" -> 3
         [] name = "CRITICAL" -> 4

\* C9: the list get_next_tasks returns is in descending priority, tasks of
\* equal priority are in graph insertion order, and a second call on the
\* unchanged graph returns the same list
C9_ReadyOrder ==
    [][/\ ready_valid' =>
            \A i, j \in 1..Len(ready_tasks') :
                i < j =>
                  /\ PriorityOf(tasks', ready_tasks'[i]) >= PriorityOf(tasks', ready_tasks'[j])
                  /\ PriorityOf(tasks', ready_tasks'[i]) = PriorityOf(tasks', ready_tasks'[j]) =>
                        Position(tasks', ready_tasks'[i]) < Position(tasks', ready_tasks'[j])
       /\ (ready_valid /\ ready_valid') => ready_tasks' = ready_tasks]_vars

\* A(High), B(Low), C(High) inserted in that order, no dependencies: [A, C, B]
C9_Witness ==
    /\ ready_valid
    /\ Len(tasks) = 3
    /\ \A i \in 1..3 : tasks[i].id = i - 1 /\ tasks[i].status = "pending"
                       /\ tasks[i].dependencies = {}
    /\ tasks[1].priority = "HIGH" /\ tasks[2].priority = "LOW" /\ tasks[3].priority = "HIGH"
    /\ ready_tasks = <<0, 2, 1>>

\* the step in which get_next_tasks computes a list
ComputesReadyList == ready_valid' /\ tasks' = tasks

\* C10 as stated: D is in no list computed while its dependency E is not
\* Completed, and is in the list computed once E is Completed
C10_GatingAsStated ==
    [][ComputesReadyList =>
         \A i, j \in 1..Len(tasks) :
             tasks[j].id \in tasks[i].dependencies =>
                 /\ tasks[j].status # "completed" => tasks[i].id \notin Range(ready_tasks')
                 /\ tasks[j].status = "completed" => tasks[i].id \in Range(ready_tasks')]_vars

\* C10 amended: D is in no list computed while its dependency E is not
\* Completed; it is in the list computed once E is Completed if D is still
\* Pending and every other dependency of D is Completed as well
C10_Gating ==
    [][ComputesReadyList =>
         \A i, j \in 1..Len(tasks) :
             tasks[j].id \in tasks[i].dependencies =>
                 /\ tasks[j].status # "completed" => tasks[i].id \notin Range(ready_tasks')
                 /\ (/\ tasks[j].status = "completed"
                     /\ tasks[i].status = "pending"
                     /\ \A k \in 1..Len(tasks) :
                           tasks[k].id \in tasks[i].dependencies =>
                               tasks[k].status = "completed")
                    => tasks[i].id \in Range(ready_tasks')]_vars

C10_Witness ==
    /\ ready_valid
    /\ \E i, j \in 1..Len(tasks) :
          /\ tasks[j].id \in tasks[i].dependencies
          /\ tasks[j].status = "completed"
          /\ tasks[i].id \in Range(ready_tasks)

\* a planner output no task list can be read from: no response text, no
\* JSON array, unparseable JSON, or an entry without the keys of a task
Unusable(response) ==
    \/ response.kind \in {"error", "no_array", "bad_json"}
    \/ /\ response.kind = "array"
       /\ \E k \in 1..Len(response.data) :
             ~({"title", "description", "priority"} \subseteq DOMAIN response.data[k])

\* C11: for an unusable planner output create_project_plan returns exactly
\* one task, Pending, without dependencies, described by the raw objective
C11_DecompositionFallback ==
    \A response \in PlannerResponses(AgentTaskData) :
        Unusable(response) =>
            LET p == create_project_plan(tasks, title_to_id, task_input, response)
            IN /\ Len(p.out) = 1
               /\ \E i \in 1..Len(p.tasks) :
                     /\ p.tasks[i].id = p.out[1]
                     /\ p.tasks[i].status = "pending"
                     /\ p.tasks[i].dependencies = {}
                     /\ p.tasks[i].description = task_input

\* execute_task has returned a failure / a success to its caller
ReturnedFailure == pc = "done" /\ ~ret.success
ReturnedSuccess == pc = "done" /\ ret.success

\* C12: a failure returned once the attempt budget is spent carries the
\* history, with a record for each of the failed attempts
C12_FailureCarriesHistory ==
    (ReturnedFailure /\ ret.attempts = 3) =>
        /\ "previous_attempts" \in DOMAIN ret
        /\ \A a \in 1..3 :
              \E i \in 1..Len(ret.previous_attempts) :
                  ret.previous_attempts[i].attempt = a

\* C13: after k failed attempts the history has exactly k entries, numbered
\* 1..k, and a successful attempt appends none
C13_OneEntryPerFailedAttempt ==
    /\ pc = "while" =>
          /\ Len(previous_attempts) = attempt
          /\ \A i \in 1..Len(previous_attempts) : previous_attempts[i].attempt = i
    /\ ReturnedSuccess => Len(previous_attempts) = attempt - 1

\* the step in which _incorporate_improvements is called
RequestsRewrite == rewrites' = rewrites + 1

\* C14: the objective rewrite is requested only once all task outcomes of the
\* attempt are collected, at most once per attempt, and never after the
\* final attempt
C14_RewriteAfterAttempt ==
    [][RequestsRewrite =>
          /\ idx = Len(plan)
          /\ attempt < 3
          /\ rewrites' <= attempt]_vars

\* the attempt starts executing the tasks of its plan
AttemptStarts == pc = "for" /\ idx = 0

\* C15: when an attempt starts executing tasks, the planner's graph holds
\* exactly the tasks decomposed for that attempt
C15_FreshGraphPerAttempt ==
    AttemptStarts => Ids(tasks) = Range(plan)

\* the step that calls create_project_plan
CallsCreateProjectPlan == pc = "while" /\ pc' = "for"

\* C16: a create_project_plan call never replaces a task already stored in
\* the graph
C16_NoTaskOverwritten ==
    [][CallsCreateProjectPlan =>
          \A i \in 1..Len(tasks) : Len(tasks') >= i /\ tasks'[i] = tasks[i]]_vars

\* C17: no task's dependency set contains the task's own id
C17_NoSelfDependency ==
    \A i \in 1..Len(tasks) : tasks[i].id \notin tasks[i].dependencies

\* C18: every id in every task's dependency set is the id of a task in the
\* graph, whatever titles the planner output named as dependencies
C18_DependenciesInGraph ==
    \A i \in 1..Len(tasks) :
        \A dep_id \in tasks[i].dependencies :
            \E j \in 1..Len(tasks) : tasks[j].id = dep_id

\* the entry titled C names A and B; with one of them unknown its task keeps a
\* single dependency, and get_next_tasks has run on that graph
C18_Witness ==
    /\ ready_valid
    /\ \E i \in 1..Len(tasks) :
          /\ tasks[i].title = "C"
          /\ Cardinality(tasks[i].dependencies) = 1

\* C19: a success result contains a 'report' entry and a non-empty 'results'
\* list, and at least one executed task is Completed
C19_SuccessResultShape ==
    ReturnedSuccess =>
        /\ "report" \in DOMAIN ret
        /\ "results" \in DOMAIN ret
        /\ Len(ret.results) > 0
        /\ \E i \in 1..Len(plan) : DictGet(tasks, plan[i]).status = "completed"

\* C20: every result of execute_task with success = False contains an
\* 'error' entry
C20_FailureHasError ==
    ReturnedFailure => "error" \in DOMAIN ret

\* a failure returned after the loop ran out of attempts, with failed reviews
\* on record
C20_Witness ==
    /\ ReturnedFailure
    /\ "previous_attempts" \in DOMAIN ret
    /\ Len(ret.previous_attempts) > 0
    /\ ret.attempts = 3

\* the step in which execute_task records an outcome in the memory log
RecordsOutcome == pc = "store" /\ pc' # "store"

\* C21: a failure of add_to_short_term leaves the orchestration path as it
\* is: after recording an outcome the task is reviewed, and no result is
\* returned because of the append
C21_AuditAppendBestEffort ==
    [][RecordsOutcome => (pc' = "review" /\ ret' = ret)]_vars

\* the step that ends the task loop of an attempt: the for loop is exhausted
\* or left by break (the success check follows), or the except clause takes
\* over (the attempt has failed: next attempt, or the failure return)
AttemptEnds == pc \in {"for", "store", "review"} /\ pc' \in {"check", "while", "done"}

\* a Pending task of the attempt's plan whose dependencies are all Completed
ReadyInPlan(ts, task_id) ==
    /\ task_id \in Range(plan)
    /\ DictGet(ts, task_id).status = "pending"
    /\ \A dep_id \in DictGet(ts, task_id).dependencies :
          DictGet(ts, dep_id).status = "completed"

\* C22: every attempt drives the schedule to exhaustion: when its task loop
\* ends, no Pending task with all dependencies Completed remains among the
\* attempt's tasks
C22_ScheduleExhausted ==
    [][AttemptEnds => \A task_id \in Ids(tasks') : ~ReadyInPlan(tasks', task_id)]_vars

\* the step in which execute_task applies the outer review to the task that
\* _execute_single_task has already given a status
AppliesOuterReview == pc = "review" /\ pc' \in {"for", "check"}

\* C23: the status _execute_single_task set for an executed task is the one
\* status transition of that task in the attempt: the review in execute_task
\* leaves it as it is
C23_StatusAppliedOnce ==
    [][AppliesOuterReview =>
          DictGet(tasks', plan[idx]).status = DictGet(tasks, plan[idx]).status]_vars

\* the step in which _execute_single_task is run for the next task of the plan
StartsTask == pc = "for" /\ pc' = "store"

\* C24: when validate_code reports the generated code of a requires_code task
\* invalid, execute_code and the review are not called for the task, the task
\* is Failed and the outcome is a failure naming the validation
C24_InvalidCodeNotExecuted ==
    [][\A b \in {x \in Behaviours : x.fail = "invalid"} :
          (/\ StartsTask
           /\ "requires_code" \in DictGet(tasks, plan[idx + 1]).metadata
           /\ ExecuteSingleTask(b))
          => /\ "validate_code" \in Range(trace')
             /\ "execute_code" \notin Range(trace')
             /\ "review_solution" \notin Range(trace')
             /\ DictGet(tasks', plan[idx + 1]).status = "failed"
             /\ Len(results') = Len(results) + 1
             /\ "error" \in DOMAIN results'[Len(results')]
             /\ results'[Len(results')].error = "Generated code is invalid"
             /\ results'[Len(results')].review.overall_score = 0]_vars

C24_Witness ==
    /\ JustReturned
    /\ "requires_code" \in CurrentTask.metadata
    /\ trace = <<"analyze_system", "generate_simulation_code", "validate_code">>
    /\ "error" \in DOMAIN LastOutcome
    /\ LastOutcome.error = "Generated code is invalid"
    /\ CurrentTask.status = "failed"

\* C25: every outcome is appended to the memory log exactly once, with its
\* task's id: the step after _execute_single_task appends it, no other step
\* changes the log, and when a task is started the outcomes of the tasks
\* before it in the plan are the last entries of the log
C25_OutcomeLoggedOnce ==
    [][/\ pc = "store" => short_term_memory' = Append(short_term_memory, plan[idx])
       /\ pc # "store" => short_term_memory' = short_term_memory
       /\ StartsTask =>
             /\ Len(short_term_memory) >= idx
             /\ \A k \in 1..idx :
                   short_term_memory[Len(short_term_memory) - idx + k] = plan[k]]_vars

\* the failure outcome of the second task of a plan is in the log
C25_Witness ==
    /\ pc = "review"
    /\ idx = 2
    /\ "error" \in DOMAIN LastOutcome
    /\ Len(short_term_memory) >= 2
    /\ short_term_memory[Len(short_term_memory)] = plan[2]
    /\ short_term_memory[Len(short_term_memory) - 1] = plan[1]

\* C27: review_solution never raises: for every output of the analysis
\* collaborator it returns a review with an overall_score and a list of
\* suggestions
C27_ReviewNeverRaises ==
    pc = "review" =>
    \A requirements \in RequirementChecks, analysis \in AnalysisOutputs :
        LET r == review_solution(requirements, analysis)
        IN /\ ~r.raised
           /\ "overall_score" \in DOMAIN r.review
           /\ r.review.overall_score \in 0..100
           /\ "improvement_suggestions" \in DOMAIN r.review

C29_CallLeavesOnlyReturnedTasks ==
    [][CallsCreateProjectPlan =>
          \A i \in 1..Len(tasks') :
              (i > Len(tasks) \/ tasks'[i] # tasks[i]) => tasks'[i].id \in Range(plan')]_vars

\* C30: every dependency id of a task returned by create_project_plan is the
\* id of a task returned by the same call
C30_DependenciesWithinCall ==
    AttemptStarts =>
        \A i \in 1..Len(plan) : DictGet(tasks, plan[i]).dependencies \subseteq Range(plan)

\* the ids reached from the set S along at most n further dependency edges
RECURSIVE Reachable(_, _, _)
Reachable(ts, S, n) ==
    IF n = 0 THEN S
    ELSE Reachable(ts, S \cup UNION {DictGet(ts, d).dependencies : d \in S}, n - 1)

\* the task depends on itself, directly or through other tasks
OnCycle(ts, task_id) ==
    task_id \in Reachable(ts, DictGet(ts, task_id).dependencies, Len(ts))

\* C26: while only tasks returned by get_next_tasks are executed, a task on a
\* dependency cycle stays Pending and is in no list get_next_tasks returns
C26_CycleNeverReady ==
    \A i \in 1..Len(tasks) :
        OnCycle(tasks, tasks[i].id) =>
            /\ tasks[i].status = "pending"
            /\ ready_valid => tasks[i].id \notin Range(ready_tasks)

\* get_next_tasks has returned a list for a graph with two tasks that depend
\* on each other, after a third task was executed and Completed
C26_Witness ==
    /\ ready_valid
    /\ \E i, j, k \in 1..Len(tasks) :
          /\ i # j
          /\ tasks[j].id \in tasks[i].dependencies
          /\ tasks[i].id \in tasks[j].dependencies
          /\ tasks[k].status = "completed"

====
